---- MODULE Spec2Model ----
(***************************************************************************)
(* Black-Scholes-Merton analytics library (black_scholes_model.py) and the *)
(* part of the dashboard (app.py) that calls it.                           *)
(*                                                                         *)
(* Real numbers are fixed-point integers.  ONE is 1.0 for rates, times,    *)
(* volatilities, d1/d2, probabilities and densities; spot and strike are   *)
(* whole currency units; prices, gamma, vega and rho are returned at scale *)
(* ONE * ONE, delta at scale ONE and theta at scale ONE.                   *)
(***************************************************************************)
EXTENDS Integers, Sequences, FiniteSets, TLC

ONE == 10 ^ 3
HALF == ONE \div 2

\* ---- bounds of the input grid -------------------------------------------
MaxSpotSteps == 2
MaxHalfYears == 2
MaxRateSteps == 1
MaxVolSteps == 2
CurvePoints == 5

\* ---- program constants ---------------------------------------------------
DaysPerYear == 365
RhoScale == 100

\* ---- numeric primitives (numpy / scipy.stats.norm) -----------------------
Abs(x) == IF x < 0 THEN -x ELSE x

\* x / y rounded to the nearest integer, y > 0
RoundDiv(x, y) == IF x >= 0 THEN (2 * x + y) \div (2 * y) ELSE -((2 * (-x) + y) \div (2 * y))

RECURSIVE NewtonSqrt(_, _)
NewtonSqrt(n, x) ==
    LET y == (x + n \div x) \div 2
    IN  IF y >= x THEN x ELSE NewtonSqrt(n, y)

\* np.sqrt(t) for t >= 0 at scale ONE: floor(sqrt(t * ONE))
Sqrt(t) == IF t <= 0 THEN 0 ELSE NewtonSqrt(t * ONE, t * ONE)

RECURSIVE ExpSeries(_, _, _, _)
ExpSeries(x, k, term, acc) ==
    IF term = 0 THEN acc
    ELSE LET next == RoundDiv(term * x, ONE * k)
         IN  ExpSeries(x, k + 1, next, acc + term)

\* np.exp(x) at scale ONE: Taylor series on |x| <= 1/2, squaring outside
RECURSIVE Exp(_)
Exp(x) ==
    IF Abs(x) <= HALF THEN ExpSeries(x, 1, ONE, 0)
    ELSE LET h == Exp(RoundDiv(x, 2)) IN RoundDiv(h * h, ONE)

RECURSIVE AtanhSeries(_, _, _, _)
AtanhSeries(z2, k, pow, acc) ==
    IF pow = 0 THEN acc
    ELSE AtanhSeries(z2, k + 2, RoundDiv(pow * z2, ONE), acc + RoundDiv(pow, k))

\* np.log(S / K) at scale ONE: 2 * atanh((S - K) / (S + K))
Log(S, K) ==
    LET z  == RoundDiv((S - K) * ONE, S + K)
        z2 == RoundDiv(z * z, ONE)
    IN  2 * AtanhSeries(z2, 1, z, 0)

\* norm.cdf at 0.0, 0.2, ..., 3.6, scale ONE
CdfTable ==
    << 500, 579, 655, 726, 788, 841, 885, 919, 945, 964,
       977, 986, 992, 995, 997, 999, 999, 1000, 1000 >>
CdfStep == ONE \div 5

\* norm.cdf(x) for x >= 0: table with linear interpolation
CdfUpper(x) ==
    LET i == x \div CdfStep
        f == x % CdfStep
    IN  IF i + 1 >= Len(CdfTable) THEN ONE
        ELSE CdfTable[i + 1] + RoundDiv((CdfTable[i + 2] - CdfTable[i + 1]) * f, CdfStep)

\* d1 / d2 are extended reals: inf = 1 is +inf, inf = -1 is -inf, inf = 0 is v
PosInf == [inf |-> 1, v |-> 0]
NegInf == [inf |-> -1, v |-> 0]
Finite(x) == [inf |-> 0, v |-> x]
Neg(d) == [inf |-> -d.inf, v |-> -d.v]

\* norm.cdf(d): 1 - cdf(-x) below zero, as scipy's ndtr mirrors its tail
Cdf(d) ==
    IF d.inf = 1 THEN ONE
    ELSE IF d.inf = -1 THEN 0
    ELSE IF d.v >= 0 THEN CdfUpper(d.v)
    ELSE ONE - CdfUpper(-d.v)

\* 1 / sqrt(2 * pi) at scale ONE
InvSqrt2Pi == (399 * ONE) \div 1000
PdfCutoff == 6 * ONE

\* norm.pdf(d) = exp(-d^2 / 2) / sqrt(2 pi); below fixed-point resolution past the cutoff
Pdf(d) ==
    IF d.inf # 0 \/ Abs(d.v) >= PdfCutoff THEN 0
    ELSE RoundDiv(InvSqrt2Pi * Exp(-RoundDiv(d.v * d.v, 2 * ONE)), ONE)

Max(a, b) == IF a >= b THEN a ELSE b

\* ---- black_scholes_model.py ----------------------------------------------
OptionType == {"call", "put"}

\* what a call of a library function ends in
Returned(x, viaD1D2) == [kind |-> "return", val |-> x, d1d2 |-> viaD1D2]
ValueError == [kind |-> "ValueError", val |-> 0, d1d2 |-> TRUE]
NotCalled == [kind |-> "none", val |-> 0, d1d2 |-> FALSE]

\* mutant: the boundary test counts the tie S = K as in the money
calculate_d1_d2_tie(S, K, T, r, sigma) ==
    IF T <= 0 \/ sigma <= 0
    THEN IF S >= K THEN <<PosInf, PosInf>> ELSE <<NegInf, NegInf>>
    ELSE LET vol == RoundDiv(sigma * Sqrt(T), ONE)
             drift == RoundDiv((r + RoundDiv(sigma * sigma, 2 * ONE)) * T, ONE)
             d1 == RoundDiv((Log(S, K) + drift) * ONE, vol)
         IN  <<Finite(d1), Finite(d1 - vol)>>

calculate_d1_d2(S, K, T, r, sigma) ==
    IF T <= 0 \/ sigma <= 0
    THEN IF S > K THEN <<PosInf, PosInf>> ELSE <<NegInf, NegInf>>
    ELSE LET vol == RoundDiv(sigma * Sqrt(T), ONE)
             drift == RoundDiv((r + RoundDiv(sigma * sigma, 2 * ONE)) * T, ONE)
             d1 == RoundDiv((Log(S, K) + drift) * ONE, vol)
         IN  <<Finite(d1), Finite(d1 - vol)>>

\* mutant: no early return at expiry, the general formula is always used
black_scholes_price_no_expiry(S, K, T, r, sigma, option_type) ==
    LET d == calculate_d1_d2(S, K, T, r, sigma)
        disc == Exp(-RoundDiv(r * T, ONE))
    IN  IF option_type = "call"
        THEN Returned(S * Cdf(d[1]) * ONE - K * disc * Cdf(d[2]), TRUE)
        ELSE IF option_type = "put"
        THEN Returned(K * disc * Cdf(Neg(d[2])) - S * Cdf(Neg(d[1])) * ONE, TRUE)
        ELSE ValueError

\* mutant: the put leg uses norm.cdf(d2) where the code uses norm.cdf(-d2)
black_scholes_price_put_d2(S, K, T, r, sigma, option_type) ==
    IF T <= 0
    THEN IF option_type = "call"
         THEN Returned(Max(0, S - K) * ONE * ONE, FALSE)
         ELSE Returned(Max(0, K - S) * ONE * ONE, FALSE)
    ELSE LET d == calculate_d1_d2(S, K, T, r, sigma)
             disc == Exp(-RoundDiv(r * T, ONE))
         IN  IF option_type = "call"
             THEN Returned(S * Cdf(d[1]) * ONE - K * disc * Cdf(d[2]), TRUE)
             ELSE IF option_type = "put"
             THEN Returned(K * disc * Cdf(d[2]) - S * Cdf(Neg(d[1])) * ONE, TRUE)
             ELSE ValueError

\* mutant: the strike is not discounted
black_scholes_price_undiscounted(S, K, T, r, sigma, option_type) ==
    IF T <= 0
    THEN IF option_type = "call"
         THEN Returned(Max(0, S - K) * ONE * ONE, FALSE)
         ELSE Returned(Max(0, K - S) * ONE * ONE, FALSE)
    ELSE LET d == calculate_d1_d2(S, K, T, r, sigma)
         IN  IF option_type = "call"
             THEN Returned(S * Cdf(d[1]) * ONE - K * ONE * Cdf(d[2]), TRUE)
             ELSE IF option_type = "put"
             THEN Returned(K * ONE * Cdf(Neg(d[2])) - S * Cdf(Neg(d[1])) * ONE, TRUE)
             ELSE ValueError

\* price at scale ONE * ONE
black_scholes_price(S, K, T, r, sigma, option_type) ==
    IF T <= 0
    THEN IF option_type = "call"
         THEN Returned(Max(0, S - K) * ONE * ONE, FALSE)
         ELSE Returned(Max(0, K - S) * ONE * ONE, FALSE)
    ELSE LET d == calculate_d1_d2(S, K, T, r, sigma)
             disc == Exp(-RoundDiv(r * T, ONE))
         IN  IF option_type = "call"
             THEN Returned(S * Cdf(d[1]) * ONE - K * disc * Cdf(d[2]), TRUE)
             ELSE IF option_type = "put"
             THEN Returned(K * disc * Cdf(Neg(d[2])) - S * Cdf(Neg(d[1])) * ONE, TRUE)
             ELSE ValueError

\* mutant: at expiry the tie S = K counts as in the money
delta_tie(S, K, T, r, sigma, option_type) ==
    IF T <= 0
    THEN IF option_type = "call"
         THEN Returned(IF S >= K THEN ONE ELSE 0, FALSE)
         ELSE Returned(IF S <= K THEN -ONE ELSE 0, FALSE)
    ELSE LET d == calculate_d1_d2(S, K, T, r, sigma)
         IN  IF option_type = "call"
             THEN Returned(Cdf(d[1]), TRUE)
             ELSE Returned(Cdf(d[1]) - ONE, TRUE)

\* mutant: the put delta is 1 - norm.cdf(d1)
delta_put_mirror(S, K, T, r, sigma, option_type) ==
    IF T <= 0
    THEN IF option_type = "call"
         THEN Returned(IF S > K THEN ONE ELSE 0, FALSE)
         ELSE Returned(IF S < K THEN -ONE ELSE 0, FALSE)
    ELSE LET d == calculate_d1_d2(S, K, T, r, sigma)
         IN  IF option_type = "call"
             THEN Returned(Cdf(d[1]), TRUE)
             ELSE Returned(ONE - Cdf(d[1]), TRUE)

\* delta at scale ONE
delta(S, K, T, r, sigma, option_type) ==
    IF T <= 0
    THEN IF option_type = "call"
         THEN Returned(IF S > K THEN ONE ELSE 0, FALSE)
         ELSE Returned(IF S < K THEN -ONE ELSE 0, FALSE)
    ELSE LET d == calculate_d1_d2(S, K, T, r, sigma)
         IN  IF option_type = "call"
             THEN Returned(Cdf(d[1]), TRUE)
             ELSE Returned(Cdf(d[1]) - ONE, TRUE)

\* mutant: gamma carries the leading minus of theta's first term
gamma_negated(S, K, T, r, sigma) ==
    IF T <= 0 \/ sigma <= 0 THEN Returned(0, FALSE)
    ELSE LET d == calculate_d1_d2(S, K, T, r, sigma)
         IN  Returned(-RoundDiv(Pdf(d[1]) * ONE * ONE, RoundDiv(S * sigma * Sqrt(T), ONE)), TRUE)

\* gamma at scale ONE * ONE
gamma(S, K, T, r, sigma) ==
    IF T <= 0 \/ sigma <= 0 THEN Returned(0, FALSE)
    ELSE LET d == calculate_d1_d2(S, K, T, r, sigma)
         IN  Returned(RoundDiv(Pdf(d[1]) * ONE * ONE, RoundDiv(S * sigma * Sqrt(T), ONE)), TRUE)

\* vega at scale ONE * ONE
vega(S, K, T, r, sigma) ==
    IF T <= 0 \/ sigma <= 0 THEN Returned(0, FALSE)
    ELSE LET d == calculate_d1_d2(S, K, T, r, sigma)
         IN  Returned(S * Pdf(d[1]) * Sqrt(T), TRUE)

\* theta per calendar day at scale ONE
theta(S, K, T, r, sigma, option_type) ==
    IF T <= 0 THEN Returned(0, FALSE)
    ELSE LET d == calculate_d1_d2(S, K, T, r, sigma)
             disc == Exp(-RoundDiv(r * T, ONE))
             term1 == -RoundDiv(S * Pdf(d[1]) * sigma, 2 * Sqrt(T))
         IN  IF option_type = "call"
             THEN LET term2 == RoundDiv(RoundDiv(r * K * disc, ONE) * Cdf(d[2]), ONE)
                  IN  Returned(RoundDiv(term1 - term2, DaysPerYear), TRUE)
             ELSE LET term2 == RoundDiv(RoundDiv(r * K * disc, ONE) * Cdf(Neg(d[2])), ONE)
                  IN  Returned(RoundDiv(term1 + term2, DaysPerYear), TRUE)

\* rho per 1% rate change at scale ONE * ONE
rho(S, K, T, r, sigma, option_type) ==
    IF T <= 0 THEN Returned(0, FALSE)
    ELSE LET d == calculate_d1_d2(S, K, T, r, sigma)
             disc == Exp(-RoundDiv(r * T, ONE))
         IN  IF option_type = "call"
             THEN Returned(RoundDiv(RoundDiv(K * T * disc, ONE) * Cdf(d[2]), RhoScale), TRUE)
             ELSE Returned(RoundDiv(-RoundDiv(K * T * disc, ONE) * Cdf(Neg(d[2])), RhoScale), TRUE)

\* ---- the caller: app.py, and a caller that passes an unsupported type ----
Spots == {100 + 5 * i : i \in -MaxSpotSteps..MaxSpotSteps}
Strikes == {100, 105}
Times == {HALF * i : i \in -1..MaxHalfYears}
Rates == {(ONE \div 20) * i : i \in -MaxRateSteps..MaxRateSteps}
Vols == {(ONE \div 5) * i : i \in -1..MaxVolSteps}

\* the calculations of app.py in their order, then the same typed operations
\* with a type outside OptionType
Calls ==
    << <<"price", "call">>, <<"price", "put">>,
       <<"delta", "call">>, <<"delta", "put">>,
       <<"gamma", "-">>, <<"vega", "-">>,
       <<"theta", "call">>, <<"theta", "put">>,
       <<"rho", "call">>, <<"rho", "put">>,
       <<"price", "straddle">>, <<"delta", "straddle">>,
       <<"theta", "straddle">>, <<"rho", "straddle">> >>
CallKeys == {Calls[i] : i \in 1..Len(Calls)}

\* np.linspace(K * 0.7, K * 1.3, CurvePoints), in whole currency units
S_range(K) ==
    [i \in 1..CurvePoints |->
        (K * 70 * (CurvePoints - 1) + K * 60 * (i - 1)) \div (100 * (CurvePoints - 1))]

VARIABLES S, K, T, r, sigma, pc, results, option_to_analyze, price_curve
vars == <<S, K, T, r, sigma, pc, results, option_to_analyze, price_curve>>
inputs == <<S, K, T, r, sigma>>

Init ==
    /\ S \in Spots
    /\ K \in Strikes
    /\ T \in Times
    /\ r \in Rates
    /\ sigma \in Vols
    /\ pc = 1
    /\ results = [c \in CallKeys |-> NotCalled]
    /\ option_to_analyze = "-"
    /\ price_curve = <<>>

Calculating(op) == pc <= Len(Calls) /\ Calls[pc][1] = op

Record(res) ==
    /\ results' = [results EXCEPT ![Calls[pc]] = res]
    /\ pc' = pc + 1
    /\ UNCHANGED <<inputs, option_to_analyze, price_curve>>

Price ==
    /\ Calculating("price")
    /\ Record(black_scholes_price(S, K, T, r, sigma, Calls[pc][2]))

Delta ==
    /\ Calculating("delta")
    /\ Record(delta(S, K, T, r, sigma, Calls[pc][2]))

Gamma ==
    /\ Calculating("gamma")
    /\ Record(gamma(S, K, T, r, sigma))

Vega ==
    /\ Calculating("vega")
    /\ Record(vega(S, K, T, r, sigma))

Theta ==
    /\ Calculating("theta")
    /\ Record(theta(S, K, T, r, sigma, Calls[pc][2]))

Rho ==
    /\ Calculating("rho")
    /\ Record(rho(S, K, T, r, sigma, Calls[pc][2]))

\* the radio button of the analysis tab
Analyze ==
    /\ pc = Len(Calls) + 1
    /\ option_to_analyze = "-"
    /\ option_to_analyze' \in OptionType
    /\ UNCHANGED <<inputs, pc, results, price_curve>>

\* one element of the list comprehension that builds price_curve
PriceCurve ==
    /\ option_to_analyze \in OptionType
    /\ Len(price_curve) < CurvePoints
    /\ LET s_val == S_range(K)[Len(price_curve) + 1]
       IN  price_curve' =
               Append(price_curve, black_scholes_price(s_val, K, T, r, sigma, option_to_analyze))
    /\ UNCHANGED <<inputs, pc, results, option_to_analyze>>

Next ==
    \/ Price
    \/ Delta
    \/ Gamma
    \/ Vega
    \/ Theta
    \/ Rho
    \/ Analyze
    \/ PriceCurve

Spec == Init /\ [][Next]_vars

TypeOK ==
    /\ pc \in 1..(Len(Calls) + 1)
    /\ \A c \in CallKeys : results[c].kind \in {"none", "return", "ValueError"}
    /\ \A i \in 1..Len(Calls) : (results[Calls[i]].kind # "none") <=> (i < pc)
    /\ Len(price_curve) <= CurvePoints

\* ---- properties -----------------------------------------------------------
Done(c) == results[c].kind # "none"
AllCalculated == pc = Len(Calls) + 1
ValidInputs == S > 0 /\ K > 0 /\ T >= 0 /\ sigma >= 0
Val(op, type) == results[<<op, type>>].val
Discount == Exp(-RoundDiv(r * T, ONE))

\* rounding of the fixed-point normal CDF, seen in a price at scale ONE * ONE
PriceNoise == (ONE * ONE) \div 4
\* 1e-6 at scale ONE * ONE
ParityTol == (ONE * ONE) \div (10 ^ 6)

\* C1: price, delta, theta and rho called with a type outside {call, put}
\* end in an invalid-argument error, whatever S, K, T, r and sigma are.
C1_InvalidTypeRaises ==
    \A c \in CallKeys :
        (c[1] \in {"price", "delta", "theta", "rho"} /\ c[2] \notin OptionType /\ Done(c))
            => results[c].kind = "ValueError"

\* C2: for valid inputs the price of a call or put is non-negative, up to
\* rounding noise.
C2_PriceNonNegative ==
    ValidInputs =>
        \A type \in OptionType :
            Done(<<"price", type>>) =>
                /\ results[<<"price", type>>].kind = "return"
                /\ Val("price", type) >= -PriceNoise

\* C3: for fixed valid K, T, r, sigma and spots S1 <= S2 the call price at S1
\* is at most that at S2 and the put price at S1 at least that at S2, up to
\* rounding noise.
C3_MonotoneInSpot ==
    (K > 0 /\ T >= 0 /\ sigma >= 0) =>
        \A i, j \in 1..Len(price_curve) :
            (S_range(K)[i] <= S_range(K)[j]) =>
                /\ option_to_analyze = "call" =>
                       price_curve[i].val <= price_curve[j].val + PriceNoise
                /\ option_to_analyze = "put" =>
                       price_curve[i].val + PriceNoise >= price_curve[j].val

\* C4: at T <= 0 the price is exactly the intrinsic value, max(0, S - K) for a
\* call and max(0, K - S) for a put, for every r and sigma, and the d1/d2
\* helper is not used.
C4_ExpiryIntrinsic ==
    T <= 0 =>
        /\ Done(<<"price", "call">>) =>
               results[<<"price", "call">>] = Returned(Max(0, S - K) * ONE * ONE, FALSE)
        /\ Done(<<"price", "put">>) =>
               results[<<"price", "put">>] = Returned(Max(0, K - S) * ONE * ONE, FALSE)
        /\ \A i \in 1..Len(price_curve) :
               LET s_val == S_range(K)[i]
               IN  price_curve[i] =
                       Returned((IF option_to_analyze = "call"
                                 THEN Max(0, s_val - K) ELSE Max(0, K - s_val)) * ONE * ONE,
                                FALSE)

C4_Witness ==
    /\ T <= 0 /\ sigma > 0 /\ r # 0 /\ S > K
    /\ Done(<<"price", "call">>) /\ Done(<<"price", "put">>)
    /\ Val("price", "call") > 0

\* C5: at T <= 0 gamma, vega, theta and rho (both types) are exactly 0;
\* delta(call) is 1 if S > K else 0 and delta(put) is -1 if S < K else 0, so
\* both are 0 at S = K.
C5_ExpiryGreeks ==
    T <= 0 =>
        /\ \A c \in {<<"gamma", "-">>, <<"vega", "-">>, <<"theta", "call">>,
                     <<"theta", "put">>, <<"rho", "call">>, <<"rho", "put">>} :
               Done(c) => (results[c].kind = "return" /\ results[c].val = 0)
        /\ Done(<<"delta", "call">>) =>
               (results[<<"delta", "call">>].kind = "return"
                /\ Val("delta", "call") = IF S > K THEN ONE ELSE 0)
        /\ Done(<<"delta", "put">>) =>
               (results[<<"delta", "put">>].kind = "return"
                /\ Val("delta", "put") = IF S < K THEN -ONE ELSE 0)

C5_Witness ==
    /\ T <= 0 /\ S = K /\ sigma > 0 /\ AllCalculated
    /\ Val("delta", "call") = 0 /\ Val("delta", "put") = 0

\* C6: put-call parity: for T > 0 and sigma > 0, price(call) - price(put)
\* equals S - K * exp(-r T) within 1e-6.
C6_PutCallParity ==
    (S > 0 /\ K > 0 /\ T > 0 /\ sigma > 0
     /\ Done(<<"price", "call">>) /\ Done(<<"price", "put">>)) =>
        Abs((Val("price", "call") - Val("price", "put"))
            - (S * ONE * ONE - K * Discount * ONE)) <= ParityTol

C6_Witness ==
    /\ T > 0 /\ sigma > 0 /\ r # 0 /\ S # K
    /\ Done(<<"price", "call">>) /\ Done(<<"price", "put">>)
    /\ Val("price", "call") > 0 /\ Val("price", "put") > 0

\* C7: for valid inputs delta(call) lies in [0, 1] and delta(put) in [-1, 0].
C7_DeltaBounds ==
    ValidInputs =>
        /\ Done(<<"delta", "call">>) =>
               (results[<<"delta", "call">>].kind = "return"
                /\ Val("delta", "call") >= 0 /\ Val("delta", "call") <= ONE)
        /\ Done(<<"delta", "put">>) =>
               (results[<<"delta", "put">>].kind = "return"
                /\ Val("delta", "put") >= -ONE /\ Val("delta", "put") <= 0)

C7_Witness ==
    /\ ValidInputs /\ T > 0 /\ sigma > 0
    /\ Done(<<"delta", "call">>) /\ Done(<<"delta", "put">>)
    /\ Val("delta", "call") > 0 /\ Val("delta", "call") < ONE
    /\ Val("delta", "put") < 0 /\ Val("delta", "put") > -ONE

\* C8: gamma and vega are exactly 0 when T <= 0 or sigma <= 0 and are >= 0
\* when T > 0 and sigma > 0.
C8_GammaVega ==
    (S > 0 /\ K > 0) =>
        \A c \in {<<"gamma", "-">>, <<"vega", "-">>} :
            Done(c) =>
                /\ results[c].kind = "return"
                /\ (T <= 0 \/ sigma <= 0) => results[c].val = 0
                /\ (T > 0 /\ sigma > 0) => results[c].val >= 0

C8_Witness ==
    /\ T > 0 /\ sigma > 0
    /\ Done(<<"gamma", "-">>) /\ Done(<<"vega", "-">>)
    /\ Val("gamma", "-") > 0 /\ Val("vega", "-") > 0

\* C9: for T > 0 and sigma <= 0: if S > K, price(call) = S - K exp(-r T) and
\* price(put) = 0; if S <= K, price(call) = 0 and price(put) = K exp(-r T) - S;
\* so with S strictly between K exp(-r T) and K neither price is the positive
\* part of the discounted payoff.
C9_ZeroVolPrice ==
    (T > 0 /\ sigma <= 0 /\ Done(<<"price", "call">>) /\ Done(<<"price", "put">>)) =>
        LET fwd == S * ONE * ONE - K * Discount * ONE
        IN  /\ S > K => (Val("price", "call") = fwd /\ Val("price", "put") = 0)
            /\ S <= K => (Val("price", "call") = 0 /\ Val("price", "put") = -fwd)
            /\ ((K * Discount < S * ONE /\ S < K) \/ (K < S /\ S * ONE < K * Discount)) =>
                   (Val("price", "call") # Max(0, fwd) /\ Val("price", "put") # Max(0, -fwd))

C9_Witness ==
    /\ T > 0 /\ sigma <= 0 /\ K * Discount < S * ONE /\ S < K
    /\ Done(<<"price", "call">>) /\ Done(<<"price", "put">>)
    /\ Val("price", "put") < 0

\* C10: delta(call) - delta(put) is 1 for T > 0 (any sigma); for T <= 0 it is
\* 1 when S # K and 0 when S = K; at S = K with sigma <= 0 the put delta is -1
\* for T > 0 and 0 for T <= 0.
C10_DeltaDifference ==
    (Done(<<"delta", "call">>) /\ Done(<<"delta", "put">>)) =>
        /\ T > 0 => Val("delta", "call") - Val("delta", "put") = ONE
        /\ (T <= 0 /\ S # K) => Val("delta", "call") - Val("delta", "put") = ONE
        /\ (T <= 0 /\ S = K) => Val("delta", "call") - Val("delta", "put") = 0
        /\ (S = K /\ sigma <= 0 /\ T > 0) => Val("delta", "put") = -ONE
        /\ (S = K /\ sigma <= 0 /\ T <= 0) => Val("delta", "put") = 0

C10_Witness ==
    /\ S = K /\ sigma <= 0 /\ T > 0
    /\ Done(<<"delta", "call">>) /\ Done(<<"delta", "put">>)
    /\ Val("delta", "put") = -ONE

====
